---- MODULE Spec2Model ----
(***************************************************************************)
(* The three analysis scripts of scripts/ (analyze_prompt_topics.py,       *)
(* analyze_photonium_claude_usage.py, analyze_photonium_founder.py):       *)
(* extraction of user prompts from session logs, normalisation, topic      *)
(* labelling through a remote endpoint, and main's linear pipeline.        *)
(*                                                                         *)
(* Texts are TLA+ strings; Python's str methods are operators over them.   *)
(* A parsed JSON value is a record tagged with its Python type.            *)
(***************************************************************************)
EXTENDS Integers, Sequences, FiniteSets, TLC

VARIABLES
    call,             \* a direct call of one function: arguments, status, result
    script,           \* which script's main is running
    pc,               \* position of main in its body
    log_path,         \* what args.log_path names on disk
    key_arg,          \* args.openai_key
    key_env,          \* the environment variable OPENAI_API_KEY
    env,              \* what the run's collaborators can do: endpoint outcomes, topic terms
    log_files,        \* main's list of log files
    prompt_data,      \* result of extract_user_prompts in main
    cleaned_prompts,  \* result of clean_prompts in main
    cluster,          \* result of analyze_prompts_with_bertopic in main
    labels,           \* iterations of the report generator's topic loop, in order
    written,          \* output files written, in order
    stdout,           \* messages main printed, in order
    exc               \* the exception that left main, or "none"

vars == <<call, script, pc, log_path, key_arg, key_env, env, log_files, prompt_data, cleaned_prompts,
          cluster, labels, written, stdout, exc>>

-----------------------------------------------------------------------------
(* Python str operations *)

Whitespace == {" ", "\t", "\n"}

Char(s, i) == SubSeq(s, i, i)

IsSpace(c) == c \in Whitespace

\* index of the first non-whitespace character at or after i, 0 when none
FirstNonSpace(s, i) ==
    LET idx == {k \in i..Len(s) : ~IsSpace(Char(s, k))}
    IN  IF idx = {} THEN 0 ELSE CHOOSE k \in idx : \A m \in idx : k <= m

\* index of the first whitespace character at or after i, Len(s)+1 when none
FirstSpace(s, i) ==
    LET idx == {k \in i..Len(s) : IsSpace(Char(s, k))}
    IN  IF idx = {} THEN Len(s) + 1 ELSE CHOOSE k \in idx : \A m \in idx : k <= m

\* index of the last non-whitespace character, 0 when none
LastNonSpace(s) ==
    LET idx == {k \in 1..Len(s) : ~IsSpace(Char(s, k))}
    IN  IF idx = {} THEN 0 ELSE CHOOSE k \in idx : \A m \in idx : k >= m

\* s.strip()
Strip(s) ==
    IF FirstNonSpace(s, 1) = 0 THEN ""
    ELSE SubSeq(s, FirstNonSpace(s, 1), LastNonSpace(s))

RECURSIVE SplitFrom(_, _)
SplitFrom(s, i) ==
    LET a == FirstNonSpace(s, i)
    IN  IF a = 0 THEN <<>>
        ELSE LET b == FirstSpace(s, a)
             IN  <<SubSeq(s, a, b - 1)>> \o SplitFrom(s, b)

\* s.split(): the whitespace-separated words of s
Split(s) == SplitFrom(s, 1)

RECURSIVE Join(_, _)
\* sep.join(words)
Join(sep, words) ==
    IF words = <<>> THEN ""
    ELSE IF Len(words) = 1 THEN words[1]
    ELSE words[1] \o sep \o Join(sep, Tail(words))

\* s.startswith(p)
StartsWith(s, p) == Len(s) >= Len(p) /\ SubSeq(s, 1, Len(p)) = p

\* s.endswith(p)
EndsWith(s, p) == Len(s) >= Len(p) /\ SubSeq(s, Len(s) - Len(p) + 1, Len(s)) = p

\* p in s
Contains(s, p) == \E i \in 1..(Len(s) - Len(p) + 1) : SubSeq(s, i, i + Len(p) - 1) = p

\* s[:n]
Prefix(s, n) == SubSeq(s, 1, IF Len(s) < n THEN Len(s) ELSE n)

Uppers == "ABCDEFGHIJKLMNOPQRSTUVWXYZ"
Lowers == "abcdefghijklmnopqrstuvwxyz"

IsUpper(c) == \E i \in 1..Len(Uppers) : Char(Uppers, i) = c
IsLower(c) == \E i \in 1..Len(Lowers) : Char(Lowers, i) = c
IsLetter(c) == IsUpper(c) \/ IsLower(c)

LowerChar(c) ==
    IF IsUpper(c) THEN Char(Lowers, CHOOSE i \in 1..Len(Uppers) : Char(Uppers, i) = c) ELSE c

UpperChar(c) ==
    IF IsLower(c) THEN Char(Uppers, CHOOSE i \in 1..Len(Lowers) : Char(Lowers, i) = c) ELSE c

RECURSIVE Lower(_)
\* s.lower()
Lower(s) == IF s = "" THEN "" ELSE LowerChar(Char(s, 1)) \o Lower(Tail(s))

RECURSIVE TitleFrom(_, _)
TitleFrom(s, i) ==
    IF i > Len(s) THEN ""
    ELSE LET c == Char(s, i)
             first == i = 1 \/ ~IsLetter(Char(s, i - 1))
         IN  (IF first THEN UpperChar(c) ELSE LowerChar(c)) \o TitleFrom(s, i + 1)

\* s.title()
Title(s) == TitleFrom(s, 1)

RECURSIVE Rep(_, _)
\* s * n
Rep(s, n) ==
    IF n <= 0 THEN ""
    ELSE IF n % 2 = 0 THEN LET h == Rep(s, n \div 2) IN h \o h
    ELSE s \o Rep(s, n - 1)

-----------------------------------------------------------------------------
(* Parsed JSON values (what json.loads returns) *)

JNull == [t |-> "null"]
JStr(s) == [t |-> "str", s |-> s]
JNum(n) == [t |-> "num", n |-> n]
JList(items) == [t |-> "list", items |-> items]
JObj(f) == [t |-> "obj", f |-> f]
NoKeys == [k \in {} |-> JNull]

\* isinstance(v, dict), isinstance(v, str), isinstance(v, list)
IsDict(v) == v.t = "obj"
IsStr(v) == v.t = "str"
IsList(v) == v.t = "list"

\* d.get(k, default) on a dict
Get(d, k, default) == IF k \in DOMAIN d.f THEN d.f[k] ELSE default

\* v == 'user'
IsUserStr(v) == IsStr(v) /\ v.s = "user"

\* bool(v)
Truthy(v) ==
    CASE v.t = "null" -> FALSE
      [] v.t = "str"  -> v.s # ""
      [] v.t = "num"  -> v.n # 0
      [] v.t = "list" -> v.items # <<>>
      [] v.t = "obj"  -> DOMAIN v.f # {}

-----------------------------------------------------------------------------
(* extract_user_prompts: identical in the three scripts.                    *)
(* A local of the code whose value is used several times is bound once as  *)
(* r \in {value}; the operator's result is the one element of the set built *)
(* from it.                                                                 *)

InterruptedMarker == "[Request interrupted by user]"

\* the filter with the substring test of line 70 left out
denylisted_prefix_only(prompt_text) ==
    \/ StartsWith(prompt_text, "[Request interrupted")
    \/ StartsWith(prompt_text, "System:")
    \/ StartsWith(prompt_text, "<system-reminder>")
    \/ Contains(Lower(prompt_text), "ultrathink")
    \/ Contains(prompt_text, "--use-todos")

\* the filter of lines 70-75, as the condition under which a text is dropped
denylisted(prompt_text) ==
    \/ Contains(prompt_text, InterruptedMarker)
    \/ StartsWith(prompt_text, "[Request interrupted")
    \/ StartsWith(prompt_text, "System:")
    \/ StartsWith(prompt_text, "<system-reminder>")
    \/ Contains(Lower(prompt_text), "ultrathink")
    \/ Contains(prompt_text, "--use-todos")

\* outcomes of processing one line
Skip == [out |-> "skip"]
Raise(e) == [out |-> "raise", exc |-> e]
Emit(text, meta) == [out |-> "prompt", text |-> text, meta |-> meta]

\* the text of a user record stored as it is, without strip()
text_result_untrimmed(prompt_text, entry, log_file, line_num) ==
    IF Strip(prompt_text) # "" /\ ~denylisted(prompt_text)
    THEN Emit(prompt_text,
              [timestamp  |-> Get(entry, "timestamp", JNull),
               session_id |-> Get(entry, "sessionId", JNull),
               file       |-> log_file,
               line       |-> line_num])
    ELSE Skip

\* lines 68-82: the text of a user record becomes a prompt or is dropped
text_result(prompt_text, entry, log_file, line_num) ==
    IF Strip(prompt_text) # "" /\ ~denylisted(prompt_text)
    THEN Emit(Strip(prompt_text),
              [timestamp  |-> Get(entry, "timestamp", JNull),
               session_id |-> Get(entry, "sessionId", JNull),
               file       |-> log_file,
               line       |-> line_num])
    ELSE Skip

RECURSIVE block_texts(_)
\* lines 60-63: block['text'] of every dict block whose text is truthy
block_texts(blocks) ==
    IF blocks = <<>> THEN <<>>
    ELSE LET block == Head(blocks)
             keep == IsDict(block) /\ Truthy(Get(block, "text", JNull))
         IN  (IF keep THEN <<Get(block, "text", JNull)>> ELSE <<>>) \o block_texts(Tail(blocks))

\* the strings of a list of JSON strings
Strs(texts) == [i \in 1..Len(texts) |-> texts[i].s]

\* the body of the inner try with a user test that reads the type tag alone
entry_result_type_only(entry, log_file, line_num) ==
    IF ~IsDict(entry) THEN Raise("AttributeError")
    ELSE
    LET type_is_user == IsUserStr(Get(entry, "type", JNull))
        message == Get(entry, "message", JObj(NoKeys))
    IN  IF ~type_is_user THEN Skip
        ELSE IF ~IsDict(message) THEN Raise("AttributeError")
        ELSE
        LET content_raw == Get(message, "content", JStr(""))
        IN  IF IsStr(content_raw)
            THEN text_result(content_raw.s, entry, log_file, line_num)
            ELSE IF IsList(content_raw)
            THEN LET texts == block_texts(content_raw.items)
                 IN  IF \E i \in 1..Len(texts) : ~IsStr(texts[i])
                     THEN Raise("TypeError")
                     ELSE text_result(Join(" ", Strs(texts)), entry, log_file, line_num)
            ELSE Skip

\* the body of the inner try with the block texts joined without a separator
entry_result_concatenating(entry, log_file, line_num) ==
    IF ~IsDict(entry) THEN Raise("AttributeError")
    ELSE
    LET type_is_user == IsUserStr(Get(entry, "type", JNull))
        message == Get(entry, "message", JObj(NoKeys))
    IN  IF ~type_is_user /\ ~IsDict(message) THEN Raise("AttributeError")
        ELSE IF ~type_is_user /\ ~IsUserStr(Get(message, "role", JNull)) THEN Skip
        ELSE IF ~IsDict(message) THEN Raise("AttributeError")
        ELSE
        LET content_raw == Get(message, "content", JStr(""))
        IN  IF IsStr(content_raw)
            THEN text_result(content_raw.s, entry, log_file, line_num)
            ELSE IF IsList(content_raw)
            THEN LET texts == block_texts(content_raw.items)
                 IN  IF \E i \in 1..Len(texts) : ~IsStr(texts[i])
                     THEN Raise("TypeError")
                     ELSE text_result(Join("", Strs(texts)), entry, log_file, line_num)
            ELSE Skip

\* lines 47-82: the body of the inner try after json.loads returned entry
entry_result(entry, log_file, line_num) ==
    IF ~IsDict(entry) THEN Raise("AttributeError")
    ELSE
    LET type_is_user == IsUserStr(Get(entry, "type", JNull))
        message == Get(entry, "message", JObj(NoKeys))
    IN  IF ~type_is_user /\ ~IsDict(message) THEN Raise("AttributeError")
        ELSE IF ~type_is_user /\ ~IsUserStr(Get(message, "role", JNull)) THEN Skip
        ELSE IF ~IsDict(message) THEN Raise("AttributeError")
        ELSE
        LET content_raw == Get(message, "content", JStr(""))
        IN  IF IsStr(content_raw)
            THEN text_result(content_raw.s, entry, log_file, line_num)
            ELSE IF IsList(content_raw)
            THEN LET texts == block_texts(content_raw.items)
                 IN  IF \E i \in 1..Len(texts) : ~IsStr(texts[i])
                     THEN Raise("TypeError")
                     ELSE text_result(Join(" ", Strs(texts)), entry, log_file, line_num)
            ELSE Skip

\* json.loads(line): the parsed value, or JSONDecodeError
json_loads(line) ==
    IF line.raw = "json" THEN [out |-> "value", value |-> line.entry]
    ELSE Raise("JSONDecodeError")

\* lines 42-86: one iteration of the line loop, with the inner try/except
line_result(line, log_file, line_num) ==
    IF line.raw = "blank" THEN Skip
    ELSE LET parsed == json_loads(line)
             r == IF parsed.out = "raise" THEN parsed
                  ELSE entry_result(parsed.value, log_file, line_num)
         IN  IF r.out = "raise" /\ r.exc = "JSONDecodeError" THEN Skip ELSE r

IsBlank(line) == line.raw = "blank"

\* content.strip().split('\n'): the lines from the first to the last non-blank one
stripped_lines(lines) ==
    LET idx == {k \in 1..Len(lines) : ~IsBlank(lines[k])}
    IN  IF idx = {} THEN <<>>
        ELSE SubSeq(lines, CHOOSE k \in idx : \A m \in idx : k <= m,
                           CHOOSE k \in idx : \A m \in idx : k >= m)

RECURSIVE scan_lines(_, _, _, _)
\* lines 41-86: the line loop from line_num on; stops at the first exception
scan_lines(lines, line_num, log_file, prompts) ==
    IF line_num > Len(lines) THEN [prompts |-> prompts, exc |-> "none"]
    ELSE CHOOSE res \in
        { IF r.out = "raise" THEN [prompts |-> prompts, exc |-> r.exc]
          ELSE scan_lines(lines, line_num + 1, log_file,
                          IF r.out = "prompt"
                          THEN Append(prompts, [text |-> r.text, meta |-> r.meta])
                          ELSE prompts)
          : r \in {line_result(lines[line_num], log_file, line_num)} } : TRUE

\* lines 35-86: the body of the outer try for one file
file_body(file, log_file, prompts) ==
    IF ~file.readable THEN [prompts |-> prompts, exc |-> "OSError"]
    ELSE scan_lines(stripped_lines(file.lines), 1, log_file, prompts)

\* the outer try with a handler for OSError alone
process_file_oserror_only(file, log_file, prompts) ==
    CHOOSE res \in
        { IF body.exc = "OSError"
          THEN [prompts |-> body.prompts, exc |-> "none", printed |-> <<"Error processing">>]
          ELSE [prompts |-> body.prompts, exc |-> body.exc, printed |-> <<>>]
          : body \in {file_body(file, log_file, prompts)} } : TRUE

\* the outer try with a handler that also empties the list of prompts
process_file_discarding(file, log_file, prompts) ==
    CHOOSE res \in
        { IF body.exc # "none"
          THEN [prompts |-> <<>>, exc |-> "none", printed |-> <<"Error processing">>]
          ELSE [prompts |-> body.prompts, exc |-> "none", printed |-> <<>>]
          : body \in {file_body(file, log_file, prompts)} } : TRUE

\* lines 34-90: the outer try/except: every Exception is printed and swallowed
process_file(file, log_file, prompts) ==
    CHOOSE res \in
        { IF body.exc # "none"
          THEN [prompts |-> body.prompts, exc |-> "none", printed |-> <<"Error processing">>]
          ELSE [prompts |-> body.prompts, exc |-> "none", printed |-> <<>>]
          : body \in {file_body(file, log_file, prompts)} } : TRUE

RECURSIVE scan_files(_, _, _, _)
\* lines 33-92: the file loop; the path of a file is its position in log_files
scan_files(files, i, prompts, printed) ==
    IF i > Len(files) THEN [status |-> "returned", prompts |-> prompts, printed |-> printed]
    ELSE CHOOSE res \in
        { IF r.exc # "none"
          THEN [status |-> "raised", prompts |-> r.prompts, printed |-> printed, exc |-> r.exc]
          ELSE scan_files(files, i + 1, r.prompts, printed \o r.printed)
          : r \in {process_file(files[i], i, prompts)} } : TRUE

extract_user_prompts(files) == scan_files(files, 1, <<>>, <<>>)

-----------------------------------------------------------------------------
(* clean_prompts: identical in the three scripts *)

TruncateAt == 500
Ellipsis == "..."

\* the body of the loop with the truncation made before the whitespace is collapsed
clean_prompt_truncate_first(prompt) ==
    Join(" ", Split(IF Len(prompt) > TruncateAt THEN Prefix(prompt, TruncateAt) \o Ellipsis ELSE prompt))

\* the body of the loop truncating from TruncateAt characters on
clean_prompt_from_budget(prompt) ==
    CHOOSE res \in
        { IF Len(collapsed) >= TruncateAt THEN Prefix(collapsed, TruncateAt) \o Ellipsis ELSE collapsed
          : collapsed \in {Join(" ", Split(prompt))} } : TRUE

\* the body of the loop with the ellipsis counted inside the budget
clean_prompt_within_budget(prompt) ==
    CHOOSE res \in
        { IF Len(collapsed) > TruncateAt
          THEN Prefix(collapsed, TruncateAt - Len(Ellipsis)) \o Ellipsis ELSE collapsed
          : collapsed \in {Join(" ", Split(prompt))} } : TRUE

\* the body of the loop trimming the ends of the text and leaving the whitespace inside it
clean_prompt_strip_only(prompt) ==
    CHOOSE res \in
        { IF Len(collapsed) > TruncateAt THEN Prefix(collapsed, TruncateAt) \o Ellipsis ELSE collapsed
          : collapsed \in {Strip(prompt)} } : TRUE

\* lines 100-108: the body of the loop for one prompt
clean_prompt(prompt) ==
    CHOOSE res \in
        { IF Len(collapsed) > TruncateAt THEN Prefix(collapsed, TruncateAt) \o Ellipsis ELSE collapsed
          : collapsed \in {Join(" ", Split(prompt))} } : TRUE

\* the normalisation with a text dropped when an earlier prompt normalises to the same text
clean_prompts_deduplicating(prompts) ==
    LET cleaned == [i \in 1..Len(prompts) |-> clean_prompt(prompts[i])]
        First(i) == \A j \in 1..(i - 1) : cleaned[j] # cleaned[i]
        keep == SelectSeq([i \in 1..Len(prompts) |-> i], First)
    IN  [k \in 1..Len(keep) |-> cleaned[keep[k]]]

\* lines 95-110
clean_prompts(prompts) == [i \in 1..Len(prompts) |-> clean_prompt(prompts[i])]

-----------------------------------------------------------------------------
(* Topic labelling: classify_topic_with_o3 (analyze_prompt_topics.py),     *)
(* classify_photonium_pattern (analyze_photonium_claude_usage.py),         *)
(* classify_photonium_workflow (analyze_photonium_founder.py).             *)
(* env_key is the value of OPENAI_API_KEY; remote is what the endpoint     *)
(* does with the request: it raises, or it answers with a content.         *)

Returned(value, requests, printed) ==
    [status |-> "returned", value |-> value, exc |-> "none", requests |-> requests, printed |-> printed]

Raised(e, requests, printed) ==
    [status |-> "raised", value |-> JNull, exc |-> e, requests |-> requests, printed |-> printed]

\* the key with a built-in default when none is given
resolve_key_hardcoded(openai_key, env_key) ==
    IF Truthy(openai_key) THEN openai_key
    ELSE IF Truthy(env_key) THEN env_key
    ELSE JStr("sk-default")

\* lines 147-148: the argument, or the environment variable when the argument is falsy
resolve_key(openai_key, env_key) == IF ~Truthy(openai_key) THEN env_key ELSE openai_key

\* json.loads(content) of a response content
content_loads(content) ==
    CASE content.raw = "json" -> [out |-> "value", value |-> content.value]
      [] content.raw = "none" -> Raise("TypeError")
      [] OTHER -> Raise("JSONDecodeError")

\* bool(content)
ContentTruthy(content) == content.raw # "none" /\ content.text # ""

\* the try body up to the response: the prompt is built (', '.join(existing_categories) needs
\* strings), then the request is made
request(existing_categories, remote) ==
    IF existing_categories # <<>> /\ \E i \in 1..Len(existing_categories) : ~IsStr(existing_categories[i])
    THEN [out |-> "raise", exc |-> "TypeError", requests |-> 0]
    ELSE IF remote.kind = "raise"
    THEN [out |-> "raise", exc |-> "APIError", requests |-> 1]
    ELSE [out |-> "content", content |-> remote.content, requests |-> 1]

\* topic_words[0].title() + suffix
leading_term_label(topic_words, suffix) ==
    IF topic_words = <<>> THEN Raise("IndexError")
    ELSE [out |-> "value", value |-> JStr(Title(topic_words[1]) \o suffix)]

\* analyze_prompt_topics.py lines 194-198: the inner try/except around the parse
o3_parse(content) ==
    CHOOSE res \in
        { IF parsed.out = "value" /\ IsDict(parsed.value)
          THEN Get(parsed.value, "category", Get(parsed.value, "classification", JStr("Unknown")))
          ELSE IF ContentTruthy(content) THEN JStr(Prefix(content.text, 50))
          ELSE JStr("Unknown")
          : parsed \in {content_loads(content)} } : TRUE

\* analyze_prompt_topics.py lines 202-204: the outer handler
o3_handler(topic_words, requests) ==
    CHOOSE res \in
        { IF label.out = "raise" THEN Raised(label.exc, requests, <<"O3 failed">>)
          ELSE Returned(label.value, requests, <<"O3 failed">>)
          : label \in {leading_term_label(topic_words, " Tasks")} } : TRUE

\* analyze_prompt_topics.py lines 138-204
classify_topic_with_o3(prompts, topic_words, openai_key, env_key, existing_categories, remote) ==
    IF ~Truthy(resolve_key(openai_key, env_key))
    THEN Returned(JStr("Classification unavailable (no OpenAI API key)"), 0, <<>>)
    ELSE CHOOSE res \in
        { IF req.out = "raise" THEN o3_handler(topic_words, req.requests)
          ELSE Returned(o3_parse(req.content), req.requests, <<"[O3] Response", "[O3] Content">>)
          : req \in {request(existing_categories, remote)} } : TRUE

PatternPlaceholder ==
    JObj("category" :> JStr("Analysis unavailable (no OpenAI API key)")
         @@ "insight" :> JStr("") @@ "action" :> JStr("") @@ "impact" :> JStr(""))

\* analyze_photonium_claude_usage.py lines 217-224: the outer handler
pattern_handler(topic_words, requests) ==
    CHOOSE res \in
        { IF label.out = "raise" THEN Raised(label.exc, requests, <<"O3 analysis failed">>)
          ELSE Returned(JObj("category" :> label.value @@ "insight" :> JStr("Analysis failed")
                             @@ "action" :> JStr("Review manually") @@ "impact" :> JStr("Unknown")),
                        requests, <<"O3 analysis failed">>)
          : label \in {leading_term_label(topic_words, " Development")} } : TRUE

\* analyze_photonium_claude_usage.py lines 206-215: the inner try/except around the parse;
\* an exception of the inner handler goes to the outer one
pattern_parse(content, topic_words, requests) ==
    CHOOSE res \in
        { IF parsed.out = "value" THEN Returned(parsed.value, requests, <<>>)
          ELSE CHOOSE r \in
              { IF label.out = "raise" THEN pattern_handler(topic_words, requests)
                ELSE Returned(JObj("category" :> label.value
                                   @@ "insight" :> JStr("Pattern identified but parsing failed")
                                   @@ "action" :> JStr("Review prompts manually")
                                   @@ "impact" :> JStr("Unknown")),
                              requests, <<>>)
                : label \in {leading_term_label(topic_words, " Tasks")} } : TRUE
          : parsed \in {content_loads(content)} } : TRUE

\* analyze_photonium_claude_usage.py lines 137-224
classify_photonium_pattern(prompts, topic_words, openai_key, env_key, existing_categories, remote) ==
    IF ~Truthy(resolve_key(openai_key, env_key))
    THEN Returned(PatternPlaceholder, 0, <<>>)
    ELSE CHOOSE res \in
        { IF req.out = "raise" THEN pattern_handler(topic_words, req.requests)
          ELSE pattern_parse(req.content, topic_words, req.requests)
          : req \in {request(existing_categories, remote)} } : TRUE

WorkflowPlaceholder ==
    JObj("workflow" :> JStr("Analysis unavailable (no OpenAI API key)")
         @@ "pattern" :> JStr("") @@ "template" :> JStr("") @@ "time_saved" :> JStr(""))

\* analyze_photonium_founder.py lines 216-223: the outer handler
workflow_handler(topic_words, requests) ==
    CHOOSE res \in
        { IF label.out = "raise" THEN Raised(label.exc, requests, <<"O3 analysis failed">>)
          ELSE Returned(JObj("workflow" :> label.value @@ "pattern" :> JStr("Analysis failed")
                             @@ "template" :> JStr("Template unavailable")
                             @@ "time_saved" :> JStr("Unknown")),
                        requests, <<"O3 analysis failed">>)
          : label \in {leading_term_label(topic_words, " Workflow")} } : TRUE

\* analyze_photonium_founder.py lines 205-214: the inner try/except around the parse
workflow_parse(content, topic_words, requests) ==
    CHOOSE res \in
        { IF parsed.out = "value" THEN Returned(parsed.value, requests, <<>>)
          ELSE CHOOSE r \in
              { IF label.out = "raise" THEN workflow_handler(topic_words, requests)
                ELSE Returned(JObj("workflow" :> label.value
                                   @@ "pattern" :> JStr("Pattern identified but parsing failed")
                                   @@ "template" :> JStr("Template generation failed")
                                   @@ "time_saved" :> JStr("Unknown")),
                              requests, <<>>)
                : label \in {leading_term_label(topic_words, " Workflow")} } : TRUE
          : parsed \in {content_loads(content)} } : TRUE

\* analyze_photonium_founder.py lines 137-223
classify_photonium_workflow(prompts, topic_words, openai_key, env_key, existing_categories, remote) ==
    IF ~Truthy(resolve_key(openai_key, env_key))
    THEN Returned(WorkflowPlaceholder, 0, <<>>)
    ELSE CHOOSE res \in
        { IF req.out = "raise" THEN workflow_handler(topic_words, req.requests)
          ELSE workflow_parse(req.content, topic_words, req.requests)
          : req \in {request(existing_categories, remote)} } : TRUE

Scripts == {"topics", "usage", "founder"}

\* the labelling function of a script
LabelFn(s) ==
    CASE s = "topics" -> "classify_topic_with_o3"
      [] s = "usage" -> "classify_photonium_pattern"
      [] s = "founder" -> "classify_photonium_workflow"

\* the labelling function fn applied to the arguments a
classify(fn, a) ==
    CASE fn = "classify_topic_with_o3" ->
            classify_topic_with_o3(a.prompts, a.topic_words, a.openai_key, a.env_key,
                                   a.existing_categories, a.remote)
      [] fn = "classify_photonium_pattern" ->
            classify_photonium_pattern(a.prompts, a.topic_words, a.openai_key, a.env_key,
                                       a.existing_categories, a.remote)
      [] fn = "classify_photonium_workflow" ->
            classify_photonium_workflow(a.prompts, a.topic_words, a.openai_key, a.env_key,
                                        a.existing_categories, a.remote)

\* the key the report generators read from a classification
LabelKey(s) == IF s = "founder" THEN "workflow" ELSE "category"

\* analysis[key] on whatever the labelling function returned
subscript(analysis, key) ==
    IF ~IsDict(analysis) THEN Raise("TypeError")
    ELSE IF key \notin DOMAIN analysis.f THEN Raise("KeyError")
    ELSE [out |-> "value", value |-> analysis.f[key]]

SeqsUpTo(S, n) == UNION {[1..k -> S] : k \in 0..n}

-----------------------------------------------------------------------------
(* Inputs of extract_user_prompts *)

MaxLines == 3        \* lines of the one file of a single-file call
MaxFiles == 3        \* files of a several-file call
MaxShortLines == 1   \* lines of each file of a several-file call

BlankLine == [raw |-> "blank"]
GarbageLine == [raw |-> "garbage"]
JsonLine(entry) == [raw |-> "json", entry |-> entry]

UserMessage(content) == JObj("role" :> JStr("user") @@ "content" :> content)

UserEntry(content) ==
    JObj("type" :> JStr("user") @@ "message" :> UserMessage(content)
         @@ "timestamp" :> JStr("2025-07-01T10:00:00Z") @@ "sessionId" :> JStr("s1"))

TextBlock(text) == JObj("type" :> JStr("text") @@ "text" :> text)
ToolBlock == JObj("type" :> JStr("tool_result") @@ "content" :> JStr("ok"))

SampleTexts ==
    { "Fix the bug in parser.py", "Fix the bug in parser.py again", "  run the tests\n",
      "   ", InterruptedMarker, "[Request interrupted by user for tool use]",
      " " \o InterruptedMarker, "System: init", " System: init",
      "<system-reminder>x", "UltraThink plan", "go --use-todos" }

ShapeLines ==
    { BlankLine, GarbageLine,
      \* role only, no type, no timestamp, no sessionId
      JsonLine(JObj("message" :> UserMessage(JStr("add a test")))),
      \* type only, no message
      JsonLine(JObj("type" :> JStr("user"))),
      JsonLine(JObj("type" :> JStr("assistant")
                    @@ "message" :> JObj("role" :> JStr("assistant") @@ "content" :> JStr("Sure")))),
      JsonLine(JObj("type" :> JStr("summary") @@ "summary" :> JStr("parser work"))),
      JsonLine(JObj("type" :> JStr("user") @@ "message" :> JNull)),
      JsonLine(JObj("type" :> JStr("system") @@ "message" :> JStr("compacted"))),
      JsonLine(JList(<<JNum(1)>>)),
      JsonLine(UserEntry(JList(<<TextBlock(JStr("part one")), ToolBlock, TextBlock(JStr("part two"))>>))),
      JsonLine(UserEntry(JList(<<TextBlock(JStr("[Request interrupted")), TextBlock(JStr("by user]"))>>))),
      JsonLine(UserEntry(JList(<<TextBlock(JNum(5))>>))),
      JsonLine(UserEntry(JNum(5))) }

Lines == {JsonLine(UserEntry(JStr(t))) : t \in SampleTexts} \cup ShapeLines

\* the lines that surround the line under study in a single-file call
CoreLines ==
    { BlankLine, GarbageLine,
      JsonLine(UserEntry(JStr("Fix the bug in parser.py"))),
      JsonLine(UserEntry(JStr("Fix the bug in parser.py again"))),
      JsonLine(JObj("type" :> JStr("assistant")
                    @@ "message" :> JObj("role" :> JStr("assistant") @@ "content" :> JStr("Sure")))),
      JsonLine(JObj("type" :> JStr("user") @@ "message" :> JNull)) }

ShortLines ==
    { GarbageLine, JsonLine(UserEntry(JStr("Fix the bug in parser.py"))),
      JsonLine(JObj("type" :> JStr("user") @@ "message" :> JNull)) }

\* sequences over CoreLines with at most one line replaced by any line of Lines
LineSeqs ==
    LET core == SeqsUpTo(CoreLines, MaxLines)
    IN  core \cup {[l EXCEPT ![i] = x] : <<l, i, x>> \in
                      {<<l, i, x>> \in core \X (1..MaxLines) \X Lines : i <= Len(l)}}

ReadableFile(lines) == [readable |-> TRUE, lines |-> lines]
UnreadableFile == [readable |-> FALSE, lines |-> <<>>]

ShortFiles == {ReadableFile(l) : l \in SeqsUpTo(ShortLines, MaxShortLines)} \cup {UnreadableFile}

FileLists ==
    {<<ReadableFile(l)>> : l \in LineSeqs} \cup (SeqsUpTo(ShortFiles, MaxFiles) \ {<<>>})

-----------------------------------------------------------------------------
(* Direct calls of the functions, and main at rest *)

NoCall == [fn |-> "none", args |-> <<>>, status |-> "idle", ret |-> <<>>]
Pending(fn, args) == [fn |-> fn, args |-> args, status |-> "pending", ret |-> <<>>]

MainIdle ==
    /\ script = "none"
    /\ pc = "idle"
    /\ log_path = "none"
    /\ key_arg = JNull
    /\ key_env = JNull
    /\ env = [terms |-> {}, remotes |-> {}]
    /\ log_files = <<>>
    /\ prompt_data = <<>>
    /\ cleaned_prompts = <<>>
    /\ cluster = <<>>
    /\ labels = <<>>
    /\ written = <<>>
    /\ stdout = <<>>
    /\ exc = "none"

mainVars == <<script, pc, log_path, key_arg, key_env, env, log_files, prompt_data, cleaned_prompts,
              cluster, labels, written, stdout, exc>>

InitExtract ==
    /\ call \in {Pending("extract_user_prompts", files) : files \in FileLists}
    /\ MainIdle

\* extract_user_prompts(log_files) runs to its end
CallExtract ==
    /\ call.fn = "extract_user_prompts"
    /\ call.status = "pending"
    /\ LET r == extract_user_prompts(call.args)
       IN  call' = [call EXCEPT !.status = r.status, !.ret = r]
    /\ UNCHANGED mainVars

SpecExtract == InitExtract /\ [][CallExtract]_vars

-----------------------------------------------------------------------------
(* Inputs of clean_prompts *)

MaxTexts == 2        \* texts of one clean_prompts call

CleanTexts ==
    { "", "  \t\n", "Fix the bug", "  Fix \t the\n\nbug  ", "wait...",
      \* exactly TruncateAt characters, nothing to collapse
      Rep("a", TruncateAt),
      \* TruncateAt + 1 characters, nothing to collapse
      Rep("a", TruncateAt + 1),
      \* TruncateAt + 1 characters, of which one is a second space in a run
      Rep("a", 250) \o "  " \o Rep("b", 249),
      \* TruncateAt + 1 characters, of which the last is a space
      Rep("a", TruncateAt) \o " ",
      \* longer than TruncateAt, the character at TruncateAt a space
      Rep("a", TruncateAt - 1) \o " bcd",
      \* longer than TruncateAt once collapsed, with whitespace runs before the cut
      "x \t " \o Rep("a", 300) \o "\n\n" \o Rep("b", 300) \o " ",
      \* TruncateAt + 2 characters that collapse to TruncateAt + 1
      " " \o Rep("a", 300) \o " " \o Rep("b", 200) }

InitClean ==
    /\ call \in {Pending("clean_prompts", l) : l \in SeqsUpTo(CleanTexts, MaxTexts) \ {<<>>}}
    /\ MainIdle

\* clean_prompts(prompts) runs to its end
CallClean ==
    /\ call.fn = "clean_prompts"
    /\ call.status = "pending"
    /\ call' = [call EXCEPT !.status = "returned", !.ret = clean_prompts(call.args)]
    /\ UNCHANGED mainVars

\* clean_prompts is called again on the list it returned
CallCleanAgain ==
    /\ call.fn = "clean_prompts"
    /\ call.status = "returned"
    /\ call' = [fn |-> "clean_prompts", args |-> call.ret, status |-> "returned again",
                ret |-> clean_prompts(call.ret)]
    /\ UNCHANGED mainVars

NextClean == CallClean \/ CallCleanAgain

SpecClean == InitClean /\ [][NextClean]_vars

-----------------------------------------------------------------------------
(* Inputs of the labelling functions *)

NoContent == [raw |-> "none", text |-> ""]
TextContent(text) == [raw |-> "text", text |-> text]
JsonContent(text, value) == [raw |-> "json", text |-> text, value |-> value]

RemoteRaises == [kind |-> "raise"]
RemoteAnswers(content) == [kind |-> "response", content |-> content]

Contents ==
    { NoContent, TextContent(""), TextContent("Sorry, I cannot help with that."),
      JsonContent("[]", JList(<<>>)),
      JsonContent("{\"insight\": \"x\"}", JObj("insight" :> JStr("x"))),
      JsonContent("{\"category\": null, \"workflow\": null}",
                  JObj("category" :> JNull @@ "workflow" :> JNull)),
      JsonContent("{\"category\": \"Local test harness\", \"workflow\": \"Lens lookup\", \"template\": [\"step 1\"]}",
                  JObj("category" :> JStr("Local test harness") @@ "workflow" :> JStr("Lens lookup")
                       @@ "template" :> JList(<<JStr("step 1")>>))),
      JsonContent("{\"category\": \"Repeated parser debugging\", \"workflow\": \"Beam expander design\", \"insight\": \"x\"}",
                  JObj("category" :> JStr("Repeated parser debugging")
                       @@ "workflow" :> JStr("Beam expander design") @@ "insight" :> JStr("x"))) }

Remotes == {RemoteRaises} \cup {RemoteAnswers(c) : c \in Contents}

KeyArgs == {JNull, JStr(""), JStr("sk-arg")}
EnvKeys == {JNull, JStr(""), JStr("sk-env")}
TermLists == {<<>>, <<"parser">>, <<"beam expander", "lens">>}
PromptLists == {<<"Fix the bug in parser.py">>, <<"align the beam expander", "add a lens">>}
ExistingLists == {<<>>, <<JStr("Parser Tasks")>>, <<JNull>>}

ClassifyArgs ==
    [prompts : PromptLists, topic_words : TermLists, openai_key : KeyArgs, env_key : EnvKeys,
     existing_categories : ExistingLists, remote : Remotes]

InitClassify ==
    /\ call \in {Pending(LabelFn(s), a) : <<s, a>> \in Scripts \X ClassifyArgs}
    /\ MainIdle

\* the labelling function runs to its end
CallClassify ==
    /\ call.fn \in {LabelFn(s) : s \in Scripts}
    /\ call.status = "pending"
    /\ LET r == classify(call.fn, call.args)
       IN  call' = [call EXCEPT !.status = r.status, !.ret = r]
    /\ UNCHANGED mainVars

SpecClassify == InitClassify /\ [][CallClassify]_vars

-----------------------------------------------------------------------------
(* main and the report generator of each script *)

MaxLogLines == 2    \* lines of the log file args.log_path names
MaxDirFiles == 2    \* log files the globs find in the directory args.log_path names
MaxTopics == 2      \* non-outlier topics the clustering call can return
TopLabelled == 5    \* topics that get a labelling call

LogLines ==
    { GarbageLine,
      JsonLine(UserEntry(JStr("Fix the bug in parser.py"))),
      JsonLine(JObj("message" :> UserMessage(JStr("add a test")))),
      JsonLine(JObj("type" :> JStr("assistant")
                    @@ "message" :> JObj("role" :> JStr("assistant") @@ "content" :> JStr("Sure")))) }

LogFiles == {ReadableFile(l) : l \in SeqsUpTo(LogLines, MaxLogLines)} \cup {UnreadableFile}

\* what args.log_path names: nothing, one file, or a directory with the files its globs find
LogPaths ==
    {[kind |-> "missing", files |-> <<>>]}
    \cup {[kind |-> "file", files |-> <<f>>] : f \in LogFiles}
    \cup {[kind |-> "dir", files |-> fs] : fs \in SeqsUpTo(ShortFiles, MaxDirFiles)}

PipelineTerms == {<<>>, <<"parser">>}

PipelineRemotes ==
    { RemoteRaises,
      RemoteAnswers(TextContent("Sorry, I cannot help with that.")),
      RemoteAnswers(JsonContent("{\"insight\": \"x\"}", JObj("insight" :> JStr("x")))),
      RemoteAnswers(JsonContent("{\"category\": \"Local test harness\", \"workflow\": \"Lens lookup\", \"template\": [\"step 1\"]}",
                  JObj("category" :> JStr("Local test harness") @@ "workflow" :> JStr("Lens lookup")
                       @@ "template" :> JList(<<JStr("step 1")>>)))),
      RemoteAnswers(JsonContent("{\"category\": \"Repeated parser debugging\", \"workflow\": \"Beam expander design\", \"insight\": \"x\"}",
                  JObj("category" :> JStr("Repeated parser debugging")
                       @@ "workflow" :> JStr("Beam expander design") @@ "insight" :> JStr("x")))) }

Init ==
    /\ call = NoCall
    /\ script \in Scripts
    /\ pc = "start"
    /\ log_path \in LogPaths
    /\ key_arg \in {JNull, JStr("sk-arg")}
    /\ key_env \in {JNull, JStr("sk-env")}
    /\ env = [terms |-> PipelineTerms, remotes |-> PipelineRemotes]
    /\ log_files = <<>>
    /\ prompt_data = <<>>
    /\ cleaned_prompts = <<>>
    /\ cluster = <<>>
    /\ labels = <<>>
    /\ written = <<>>
    /\ stdout = <<>>
    /\ exc = "none"

\* the progress lines of main, which differ between the scripts (counts left out)
progress(s, stage) ==
    CASE stage = "extracting" ->
            IF s = "founder" THEN "Extracting optical design workflows..."
            ELSE "Extracting user prompts..."
      [] stage = "extracted" ->
            IF s = "founder" THEN "Extracted prompts from Adam's sessions"
            ELSE "Extracted user prompts"
      [] stage = "cleaning" ->
            IF s = "founder" THEN "Analyzing optical design patterns..." ELSE "Cleaning prompts..."
      [] stage = "clustering" ->
            IF s = "founder" THEN "Identifying top workflows to templatize..."
            ELSE "Clustering prompts into topics..."
      [] stage = "generating" ->
            IF s = "topics" THEN "Generating report..."
            ELSE IF s = "usage" THEN "Generating optimization report..."
            ELSE "Generating founder playbook..."
      [] stage = "complete" ->
            IF s = "founder" THEN "Playbook complete! Start building faster."
            ELSE "Analysis complete!"

\* main: the path checks up to "Found n log files"
CollectLogFiles ==
    /\ pc = "start"
    /\ IF log_path.kind = "missing"
       THEN /\ stdout' = Append(stdout, "Error: log_path not found")
            /\ pc' = "done"
            /\ UNCHANGED log_files
       ELSE /\ log_files' = log_path.files
            /\ IF log_path.files = <<>>
               THEN stdout' = Append(stdout, "No log files found") /\ pc' = "done"
               ELSE stdout' = Append(stdout, "Found log files") /\ pc' = "extract"
    /\ UNCHANGED <<call, script, log_path, key_arg, key_env, env, prompt_data, cleaned_prompts,
                   cluster, labels, written, exc>>

\* main: the extraction stage with no test of its result
ExtractPrompts_unchecked ==
    /\ pc = "extract"
    /\ \E r \in {extract_user_prompts(log_files)} :
          /\ prompt_data' = r.prompts
          /\ stdout' = (stdout \o <<progress(script, "extracting")>>) \o r.printed \o <<progress(script, "extracted")>>
          /\ pc' = "clean"
          /\ exc' = exc
    /\ UNCHANGED <<call, script, log_path, key_arg, key_env, env, log_files, cleaned_prompts,
                   cluster, labels, written>>

\* main: the extraction stage and the test of its result
ExtractPrompts ==
    /\ pc = "extract"
    /\ \E r \in {extract_user_prompts(log_files)} :
          /\ prompt_data' = r.prompts
          /\ IF r.status = "raised"
             THEN /\ exc' = r.exc
                  /\ pc' = "aborted"
                  /\ stdout' = (stdout \o <<progress(script, "extracting")>>) \o r.printed
             ELSE /\ exc' = exc
                  /\ IF r.prompts = <<>>
                     THEN /\ stdout' = (stdout \o <<progress(script, "extracting")>>) \o r.printed
                                          \o <<"No user prompts found in logs">>
                          /\ pc' = "done"
                     ELSE /\ stdout' = (stdout \o <<progress(script, "extracting")>>) \o r.printed
                                          \o <<progress(script, "extracted")>>
                          /\ pc' = "clean"
    /\ UNCHANGED <<call, script, log_path, key_arg, key_env, env, log_files, cleaned_prompts,
                   cluster, labels, written>>

\* main: prompts = [p[0] for p in prompt_data]
Texts(data) == [i \in 1..Len(data) |-> data[i].text]

\* main: metadata = [p[1] for p in prompt_data]
Metadata(data) == [i \in 1..Len(data) |-> data[i].meta]

\* main: the normalisation stage
CleanPrompts ==
    /\ pc = "clean"
    /\ cleaned_prompts' = clean_prompts(Texts(prompt_data))
    /\ stdout' = Append(stdout, progress(script, "cleaning"))
    /\ pc' = "cluster"
    /\ UNCHANGED <<call, script, log_path, key_arg, key_env, env, log_files, prompt_data,
                   cluster, labels, written, exc>>

\* number of prompts assigned topic t
Count(topics, t) == Cardinality({i \in 1..Len(topics) : topics[i] = t})

\* non-outlier topic ids of an assignment
TopicIds(topics) == {topics[i] : i \in 1..Len(topics)} \ {-1}

\* what fit_transform can return for n documents: one topic id per document, -1 for an
\* outlier, the other ids numbered from 0 by decreasing size
Assignments(n) ==
    { topics \in [1..n -> -1..(MaxTopics - 1)] :
        /\ TopicIds(topics) = 0..(Cardinality(TopicIds(topics)) - 1)
        /\ \A t \in TopicIds(topics) :
              (t + 1) \in TopicIds(topics) => Count(topics, t) >= Count(topics, t + 1) }

\* topic_model.get_topic_info() without the outlier row: one row per topic by topic id, each
\* keeping the index it had in the unfiltered frame
topic_info(topics) ==
    LET shift == IF \E i \in 1..Len(topics) : topics[i] = -1 THEN 1 ELSE 0
    IN  [k \in 1..Cardinality(TopicIds(topics)) |->
            [idx |-> (k - 1) + shift, Topic |-> k - 1, Count |-> Count(topics, k - 1)]]

\* DataFrame.head(n)
head(rows, n) == SubSeq(rows, 1, IF Len(rows) < n THEN Len(rows) ELSE n)

\* the topic loop stopping after the labelled topics in every script
loop_rows_head(s, rows) == head(rows, TopLabelled)

\* the rows the topic loop of a report generator visits
loop_rows(s, rows) == IF s = "topics" THEN rows ELSE head(rows, TopLabelled)

\* whether the loop makes a labelling call for a row
labelled(s, row) == s # "topics" \/ row.idx < TopLabelled

\* the clustering stage with a failure of the library caught and an empty result reported
ClusterPrompts_recovering ==
    /\ pc = "cluster"
    /\ \/ /\ cluster' = [status |-> "raised", topics |-> <<>>, rows |-> <<>>]
          /\ exc' = exc
          /\ pc' = "report"
          /\ stdout' = stdout \o <<progress(script, "clustering"), progress(script, "generating")>>
       \/ \E topics \in Assignments(Len(cleaned_prompts)) :
             /\ cluster' = [status |-> "returned", topics |-> topics, rows |-> topic_info(topics)]
             /\ exc' = exc
             /\ pc' = IF loop_rows(script, topic_info(topics)) = <<>> THEN "report" ELSE "label"
             /\ stdout' = stdout \o <<progress(script, "clustering"), progress(script, "generating")>>
    /\ UNCHANGED <<call, script, log_path, key_arg, key_env, env, log_files, prompt_data,
                   cleaned_prompts, labels, written>>

\* main: the clustering stage, and the report generator up to its topic loop
ClusterPrompts ==
    /\ pc = "cluster"
    /\ \/ /\ cluster' = [status |-> "raised", topics |-> <<>>, rows |-> <<>>]
          /\ exc' = "ValueError"
          /\ pc' = "aborted"
          /\ stdout' = Append(stdout, progress(script, "clustering"))
       \/ \E topics \in Assignments(Len(cleaned_prompts)) :
             /\ cluster' = [status |-> "returned", topics |-> topics, rows |-> topic_info(topics)]
             /\ exc' = exc
             /\ pc' = IF loop_rows(script, topic_info(topics)) = <<>> THEN "report" ELSE "label"
             /\ stdout' = stdout \o <<progress(script, "clustering"), progress(script, "generating")>>
    /\ UNCHANGED <<call, script, log_path, key_arg, key_env, env, log_files, prompt_data,
                   cleaned_prompts, labels, written>>

\* [p for p, t in zip(prompts, topics) if t == topic_id]
topic_prompts(prompts, topics, topic_id) ==
    LET Member(i) == topics[i] = topic_id
        members == SelectSeq([i \in 1..Len(prompts) |-> i], Member)
    IN  [j \in 1..Len(members) |-> prompts[members[j]]]

\* the iterations of the topic loop that made a labelling call and got a classification
Classified(sections) ==
    LET Called(sec) == sec.called /\ sec.status = "returned"
    IN  SelectSeq(sections, Called)

\* the last label assigned alone
existing_last_only(s, sections) ==
    LET done == Classified(sections)
    IN  IF done = <<>> THEN <<>>
        ELSE <<IF s = "topics" THEN done[Len(done)].analysis
               ELSE done[Len(done)].analysis.f[LabelKey(s)]>>

\* the labels already assigned, as the next labelling call is told them
existing(s, sections) ==
    LET done == Classified(sections)
    IN  [i \in 1..Len(done) |->
            IF s = "topics" THEN done[i].analysis ELSE done[i].analysis.f[LabelKey(s)]]

\* one iteration of the topic loop: the labelling call and the lookup of its label
LabelTopic ==
    /\ pc = "label"
    /\ Len(labels) < Len(loop_rows(script, cluster.rows))
    /\ LET rows == loop_rows(script, cluster.rows)
           row == rows[Len(labels) + 1]
           last == Len(labels) + 1 = Len(rows)
       IN  IF ~labelled(script, row)
           THEN /\ labels' = Append(labels, [row |-> row, called |-> FALSE, status |-> "none",
                                             args |-> <<>>, analysis |-> JNull])
                /\ pc' = IF last THEN "report" ELSE "label"
                /\ UNCHANGED <<exc, stdout>>
           ELSE \E words \in env.terms, remote \in env.remotes :
                \E a \in {[prompts |-> topic_prompts(cleaned_prompts, cluster.topics, row.Topic),
                           topic_words |-> words, openai_key |-> key_arg, env_key |-> key_env,
                           existing_categories |-> existing(script, labels), remote |-> remote]} :
                \E r \in {classify(LabelFn(script), a)} :
                \E key \in {IF r.status = "raised" THEN Raise(r.exc)
                            ELSE IF script = "topics" THEN [out |-> "value", value |-> r.value]
                            ELSE subscript(r.value, LabelKey(script))} :
                   /\ stdout' = stdout \o r.printed
                   /\ IF key.out = "raise"
                      THEN /\ labels' = Append(labels, [row |-> row, called |-> TRUE, status |-> "raised",
                                                        args |-> a, analysis |-> r.value])
                           /\ exc' = key.exc
                           /\ pc' = "aborted"
                      ELSE /\ labels' = Append(labels, [row |-> row, called |-> TRUE, status |-> "returned",
                                                        args |-> a, analysis |-> r.value])
                           /\ exc' = exc
                           /\ pc' = IF last THEN "report" ELSE "label"
    /\ UNCHANGED <<call, script, log_path, key_arg, key_env, env, log_files, prompt_data,
                   cleaned_prompts, cluster, written>>

\* a classification whose 'template' is truthy and not a string: '\n'.join(report_lines) raises
unjoinable(s, sections) ==
    /\ s # "topics"
    /\ \E i \in 1..Len(sections) :
          /\ sections[i].called
          /\ Truthy(Get(sections[i].analysis, "template", JNull))
          /\ ~IsStr(Get(sections[i].analysis, "template", JNull))

\* analyze_prompt_topics.py lines 311-317: no record with a truthy session id
no_sessions(s, metadata) ==
    /\ s = "topics"
    /\ \A i \in 1..Len(metadata) : ~Truthy(metadata[i].session_id)

\* the sidecar file written in every run
sidecar_due_always(sections) == TRUE

\* the sidecar file is due: a classification was stored
sidecar_due(sections) == \E i \in 1..Len(sections) : sections[i].called

\* the report generator going back to its topic loop once the Markdown file is written
after_report_relabelling(s, sections) ==
    IF sidecar_due(sections) THEN "label" ELSE IF s = "topics" THEN "csv" ELSE "done"

\* where the report generator goes after the Markdown file
after_report(s, sections) ==
    IF sidecar_due(sections) THEN "sidecar" ELSE IF s = "topics" THEN "csv" ELSE "done"

\* the label a section of the report shows for a labelled topic
section_label(s, sec) ==
    IF ~sec.called THEN JNull
    ELSE IF s = "topics" THEN sec.analysis
    ELSE sec.analysis.f[LabelKey(s)]

\* what the Markdown report says: the total, one numbered section per iteration of the topic
\* loop with the topic's prompt count, and in analyze_prompt_topics.py the outlier count
report_body(s, sections, topics, prompts) ==
    [total    |-> Len(prompts),
     sections |-> [i \in 1..Len(sections) |->
                      [number |-> sections[i].row.idx + 1,
                       Topic  |-> sections[i].row.Topic,
                       count  |-> sections[i].row.Count,
                       label  |-> section_label(s, sections[i])]],
     outliers |-> IF s = "topics" THEN Count(topics, -1) ELSE 0]

\* what the sidecar file holds: one entry per classification stored by the topic loop
sidecar_entries(s, sections) ==
    LET Called(sec) == sec.called
        stored == SelectSeq(sections, Called)
    IN  [i \in 1..Len(stored) |->
            [topic_id |-> stored[i].row.Topic,
             label |-> section_label(s, stored[i]),
             prompt_count |-> stored[i].row.Count]]

\* the report generator with a failure to open the Markdown file caught and reported
WriteReport_recovering ==
    /\ pc = "report"
    /\ IF no_sessions(script, Metadata(prompt_data))
       THEN exc' = "ZeroDivisionError" /\ pc' = "aborted" /\ UNCHANGED <<written, stdout>>
       ELSE \E opened \in BOOLEAN :
               IF ~opened
               THEN /\ exc' = exc
                    /\ pc' = after_report(script, labels)
                    /\ stdout' = Append(stdout, "Error: report not saved")
                    /\ UNCHANGED written
               ELSE IF unjoinable(script, labels)
               THEN /\ written' = Append(written, [file |-> "md", complete |-> FALSE])
                    /\ exc' = "TypeError"
                    /\ pc' = "aborted"
                    /\ UNCHANGED stdout
               ELSE /\ written' = Append(written,
                                       [file |-> "md", complete |-> TRUE,
                                        body |-> report_body(script, labels, cluster.topics,
                                                             cleaned_prompts)])
                    /\ exc' = exc
                    /\ pc' = after_report(script, labels)
                    /\ stdout' = stdout \o (IF after_report(script, labels) = "done"
                                            THEN <<"Report saved", progress(script, "complete")>>
                                            ELSE <<"Report saved">>)
    /\ UNCHANGED <<call, script, log_path, key_arg, key_env, env, log_files, prompt_data,
                   cleaned_prompts, cluster, labels>>

\* the report generator: the rest of the report body and the Markdown file
WriteReport ==
    /\ pc = "report"
    /\ IF no_sessions(script, Metadata(prompt_data))
       THEN exc' = "ZeroDivisionError" /\ pc' = "aborted" /\ UNCHANGED <<written, stdout>>
       ELSE \E opened \in BOOLEAN :
               IF ~opened
               THEN exc' = "OSError" /\ pc' = "aborted" /\ UNCHANGED <<written, stdout>>
               ELSE IF unjoinable(script, labels)
               THEN /\ written' = Append(written, [file |-> "md", complete |-> FALSE])
                    /\ exc' = "TypeError"
                    /\ pc' = "aborted"
                    /\ UNCHANGED stdout
               ELSE /\ written' = Append(written,
                                       [file |-> "md", complete |-> TRUE,
                                        body |-> report_body(script, labels, cluster.topics,
                                                             cleaned_prompts)])
                    /\ exc' = exc
                    /\ pc' = after_report(script, labels)
                    /\ stdout' = stdout \o (IF after_report(script, labels) = "done"
                                            THEN <<"Report saved", progress(script, "complete")>>
                                            ELSE <<"Report saved">>)
    /\ UNCHANGED <<call, script, log_path, key_arg, key_env, env, log_files, prompt_data,
                   cleaned_prompts, cluster, labels>>

\* the report generator: the sidecar JSON file
WriteSidecar ==
    /\ pc = "sidecar"
    /\ \E opened \in BOOLEAN :
          IF ~opened
          THEN exc' = "OSError" /\ pc' = "aborted" /\ UNCHANGED <<written, stdout>>
          ELSE /\ written' = Append(written, [file |-> "json", complete |-> TRUE,
                                               body |-> sidecar_entries(script, labels)])
               /\ exc' = exc
               /\ pc' = IF script = "topics" THEN "csv" ELSE "done"
               /\ stdout' = stdout \o (IF script = "topics" THEN <<"Sidecar saved">>
                                       ELSE <<"Sidecar saved", progress(script, "complete")>>)
    /\ UNCHANGED <<call, script, log_path, key_arg, key_env, env, log_files, prompt_data,
                   cleaned_prompts, cluster, labels>>

\* generate_report of analyze_prompt_topics.py: the CSV file
WriteCsv ==
    /\ pc = "csv"
    /\ \E opened \in BOOLEAN :
          IF ~opened
          THEN exc' = "OSError" /\ pc' = "aborted" /\ UNCHANGED <<written, stdout>>
          ELSE /\ written' = Append(written, [file |-> "csv", complete |-> TRUE,
                                               body |-> [rows |-> Len(cleaned_prompts)]])
               /\ exc' = exc
               /\ pc' = "done"
               /\ stdout' = stdout \o <<"Detailed results saved", progress(script, "complete")>>
    /\ UNCHANGED <<call, script, log_path, key_arg, key_env, env, log_files, prompt_data,
                   cleaned_prompts, cluster, labels>>

Next ==
    \/ CollectLogFiles
    \/ ExtractPrompts
    \/ CleanPrompts
    \/ ClusterPrompts
    \/ LabelTopic
    \/ WriteReport
    \/ WriteSidecar
    \/ WriteCsv

Spec == Init /\ [][Next]_vars

-----------------------------------------------------------------------------
(* Claims about extract_user_prompts *)

ExtractEnded == call.fn = "extract_user_prompts" /\ call.status # "pending"

AllLines(files) == UNION {{files[i].lines[k] : k \in 1..Len(files[i].lines)} : i \in 1..Len(files)}

NonBlankCount(files) ==
    Cardinality(UNION {{<<i, k>> : k \in {n \in 1..Len(files[i].lines) : ~IsBlank(files[i].lines[n])}}
                       : i \in 1..Len(files)})

\* C1: whatever the files hold (records, unparseable lines, blank lines), extract_user_prompts
\* returns without raising, and returns at most as many prompts as there are non-blank lines.
C1_ExtractReturnsBounded ==
    ExtractEnded =>
        /\ call.status = "returned"
        /\ Len(call.ret.prompts) <= NonBlankCount(call.args)

C1_Witness ==
    /\ ExtractEnded
    /\ call.status = "returned"
    /\ \E i \in 1..Len(call.args) :
          /\ call.args[i].readable
          /\ \E k \in 1..Len(call.args[i].lines) : call.args[i].lines[k] = GarbageLine
          /\ \E k \in 1..Len(call.args[i].lines) : call.args[i].lines[k] = BlankLine
    /\ Len(call.ret.prompts) = 1

\* a record the specification counts as a user turn: type or message role equal to "user"
IsUserRecord(line) ==
    /\ line.raw = "json"
    /\ IsDict(line.entry)
    /\ \/ IsUserStr(Get(line.entry, "type", JNull))
       \/ /\ IsDict(Get(line.entry, "message", JObj(NoKeys)))
          /\ IsUserStr(Get(Get(line.entry, "message", JObj(NoKeys)), "role", JNull))

\* the content of a record's message, "" when there is none
RecordContent(line) ==
    LET message == Get(line.entry, "message", JObj(NoKeys))
    IN  IF IsDict(message) THEN Get(message, "content", JStr("")) ELSE JStr("")

\* the string texts of the blocks of a content list
StringTexts(blocks) ==
    LET IsTextBlock(b) == IsDict(b) /\ IsStr(Get(b, "text", JNull)) /\ Get(b, "text", JNull).s # ""
        kept == SelectSeq(blocks, IsTextBlock)
    IN  [i \in 1..Len(kept) |-> Get(kept[i], "text", JNull).s]

\* the text of a record: its string content, or its text blocks joined by a space
RecordText(line) ==
    LET content == RecordContent(line)
    IN  IF IsStr(content) THEN content.s
        ELSE IF IsList(content) THEN Join(" ", StringTexts(content.items))
        ELSE ""

\* a user record with non-empty, non-denylisted text
IsPromptRecord(line) ==
    /\ IsUserRecord(line)
    /\ Strip(RecordText(line)) # ""
    /\ ~denylisted(RecordText(line))

ExpectedTexts(lines) ==
    LET kept == SelectSeq(lines, IsPromptRecord)
    IN  [i \in 1..Len(kept) |-> Strip(RecordText(kept[i]))]

ReturnedTexts == [i \in 1..Len(call.ret.prompts) |-> call.ret.prompts[i].text]

IsObjectOrGarbage(line) == line = GarbageLine \/ (line.raw = "json" /\ IsDict(line.entry))

\* C2: for a file whose lines are each a well-formed JSON object or unparseable text,
\* extract_user_prompts returns exactly one prompt for every line that is a user record with
\* non-empty, non-denylisted text, in order, and nothing else.
C2_OnePromptPerUserRecord ==
    ( /\ ExtractEnded
      /\ Len(call.args) = 1
      /\ call.args[1].readable
      /\ \A k \in 1..Len(call.args[1].lines) : IsObjectOrGarbage(call.args[1].lines[k]) )
    => /\ call.status = "returned"
       /\ ReturnedTexts = ExpectedTexts(call.args[1].lines)

\* C3: no prompt returned by extract_user_prompts has the text "[Request interrupted by user]".
C3_InterruptedMarkerNeverReturned ==
    ExtractEnded =>
        \A i \in 1..Len(call.ret.prompts) : call.ret.prompts[i].text # InterruptedMarker

C3_Witness ==
    /\ ExtractEnded
    /\ JsonLine(UserEntry(JStr(InterruptedMarker))) \in AllLines(call.args)
    /\ JsonLine(UserEntry(JStr("Fix the bug in parser.py"))) \in AllLines(call.args)
    /\ Len(call.ret.prompts) = 1

-----------------------------------------------------------------------------
(* Claims about clean_prompts *)

CleanEnded == call.fn = "clean_prompts" /\ call.status # "pending"

\* C4: normalising a normalised list changes nothing: clean_prompts(clean_prompts(L)) is
\* clean_prompts(L).
C4_CleanIdempotent ==
    (call.fn = "clean_prompts" /\ call.status = "returned again") => call.ret = call.args

C4_Witness ==
    /\ call.fn = "clean_prompts"
    /\ call.status = "returned again"
    /\ \E i \in 1..Len(call.args) :
          /\ Len(call.args[i]) = TruncateAt + Len(Ellipsis)
          /\ Char(call.args[i], TruncateAt) = " "
    /\ \E i \in 1..Len(call.args) : Len(call.args[i]) < TruncateAt

\* C5 as stated: every text longer than 500 characters comes out ending with "...", and a
\* text of exactly 501 characters comes out as its first 500 characters followed by "...".
C5_LongTextEndsWithEllipsis ==
    CleanEnded =>
        \A i \in 1..Len(call.args) :
            /\ Len(call.args[i]) > TruncateAt => EndsWith(call.ret[i], Ellipsis)
            /\ Len(call.args[i]) = TruncateAt + 1
                   => call.ret[i] = Prefix(call.args[i], TruncateAt) \o Ellipsis

\* C5 amended: every text whose words joined by single spaces are longer than 500 characters
\* comes out as the first 500 characters of that joined form followed by "..." (503 in all).
C5_LongCollapsedTextTruncated ==
    CleanEnded =>
        \A i \in 1..Len(call.args) :
            Len(Join(" ", Split(call.args[i]))) > TruncateAt
                => /\ call.ret[i] = Prefix(Join(" ", Split(call.args[i])), TruncateAt) \o Ellipsis
                   /\ EndsWith(call.ret[i], Ellipsis)
                   /\ Len(call.ret[i]) = TruncateAt + Len(Ellipsis)

C5_Witness ==
    /\ CleanEnded
    /\ \E i \in 1..Len(call.args) :
          /\ Len(call.args[i]) = TruncateAt + 1
          /\ Len(call.ret[i]) = TruncateAt + Len(Ellipsis)
    /\ \E i \in 1..Len(call.args) :
          /\ Len(call.args[i]) > TruncateAt + Len(Ellipsis)
          /\ call.args[i] # Join(" ", Split(call.args[i]))
          /\ EndsWith(call.ret[i], Ellipsis)

\* no whitespace at either end, and no whitespace other than single spaces between words
SingleSpaced(s) ==
    /\ \A k \in 1..Len(s) : IsSpace(Char(s, k)) => Char(s, k) = " "
    /\ \A k \in 1..Len(s) : Char(s, k) = " " => (k > 1 /\ k < Len(s) /\ Char(s, k + 1) # " ")

\* C6: a text of at most 500 characters comes out with its whitespace collapsed and nothing
\* else changed: the same words, single spaces between them, no ellipsis added.
C6_ShortTextOnlyCollapsed ==
    CleanEnded =>
        \A i \in 1..Len(call.args) :
            Len(call.args[i]) <= TruncateAt
                => /\ Split(call.ret[i]) = Split(call.args[i])
                   /\ SingleSpaced(call.ret[i])
                   /\ Len(call.ret[i]) <= Len(call.args[i])

C6_Witness ==
    /\ CleanEnded
    /\ \E i \in 1..Len(call.args) :
          /\ Len(call.args[i]) = TruncateAt
          /\ call.ret[i] = call.args[i]
    /\ \E i \in 1..Len(call.args) :
          /\ Len(call.args[i]) < TruncateAt
          /\ Len(call.ret[i]) < Len(call.args[i])
          /\ call.ret[i] # ""

-----------------------------------------------------------------------------
(* Claims about the labelling functions *)

ClassifyEnded == call.fn \in {LabelFn(s) : s \in Scripts} /\ call.status # "pending"

NoCredential == call.args.openai_key = JNull /\ call.args.env_key = JNull

\* the placeholder of each labelling function, field by field
IsPlaceholder(fn, value) ==
    CASE fn = "classify_topic_with_o3" ->
            IsStr(value) /\ value.s = "Classification unavailable (no OpenAI API key)"
      [] fn = "classify_photonium_pattern" ->
            /\ IsDict(value)
            /\ DOMAIN value.f = {"category", "insight", "action", "impact"}
            /\ \A k \in DOMAIN value.f : IsStr(value.f[k])
            /\ value.f["category"].s = "Analysis unavailable (no OpenAI API key)"
            /\ \A k \in {"insight", "action", "impact"} : value.f[k].s = ""
      [] fn = "classify_photonium_workflow" ->
            /\ IsDict(value)
            /\ DOMAIN value.f = {"workflow", "pattern", "template", "time_saved"}
            /\ \A k \in DOMAIN value.f : IsStr(value.f[k])
            /\ value.f["workflow"].s = "Analysis unavailable (no OpenAI API key)"
            /\ \A k \in {"pattern", "template", "time_saved"} : value.f[k].s = ""

HasCredential == Truthy(call.args.openai_key) \/ Truthy(call.args.env_key)

\* the remote call raises, or its response cannot be parsed
RemoteFails ==
    \/ call.args.remote.kind = "raise"
    \/ call.args.remote.content.raw # "json"

\* the label of a classification: the string itself, or the value under the label key
LabelOf(fn, value) ==
    IF fn = "classify_topic_with_o3" THEN value
    ELSE IF IsDict(value) /\ (IF fn = "classify_photonium_workflow" THEN "workflow" ELSE "category") \in DOMAIN value.f
    THEN value.f[IF fn = "classify_photonium_workflow" THEN "workflow" ELSE "category"]
    ELSE JNull

\* C8: with a credential, when the remote call raises or its response cannot be parsed, the
\* labelling function returns (never raises) a fallback whose label is built from the
\* topic's leading term, for every term list, the empty one included.
C8_FallbackFromLeadingTerm ==
    (ClassifyEnded /\ HasCredential /\ RemoteFails) =>
        /\ call.status = "returned"
        /\ call.args.topic_words # <<>> =>
              /\ IsStr(LabelOf(call.fn, call.ret.value))
              /\ StartsWith(LabelOf(call.fn, call.ret.value).s, Title(call.args.topic_words[1]))

\* C9: whatever body the endpoint returns, the object classify_photonium_pattern returns
\* holds 'category' and the one classify_photonium_workflow returns holds 'workflow'.
C9_LabelKeyPresent ==
    ( /\ ClassifyEnded
      /\ call.fn \in {"classify_photonium_pattern", "classify_photonium_workflow"}
      /\ call.status = "returned" )
    => subscript(call.ret.value,
                 IF call.fn = "classify_photonium_workflow" THEN "workflow" ELSE "category").out = "value"

-----------------------------------------------------------------------------
(* Claims about main *)

AssistantOnlyLog ==
    [kind |-> "file",
     files |-> <<ReadableFile(<<JsonLine(JObj("type" :> JStr("assistant")
                    @@ "message" :> JObj("role" :> JStr("assistant") @@ "content" :> JStr("Sure"))))>>)>>]

PathMissing == log_path.kind = "missing"
NoLogFiles == log_path.kind # "missing" /\ log_path.files = <<>>
\* extract_user_prompts has returned to main, with no prompt
ZeroPrompts ==
    /\ pc \notin {"start", "extract"}
    /\ log_path.kind # "missing"
    /\ log_path.files # <<>>
    /\ prompt_data = <<>>

\* nothing after extraction has run, and no exception has left main
NothingDownstream ==
    /\ cleaned_prompts = <<>>
    /\ cluster = <<>>
    /\ labels = <<>>
    /\ written = <<>>
    /\ exc = "none"

\* C10: in a run where the log path does not exist, no log file is found, or extraction
\* yields zero prompts, main prints the corresponding message and returns normally: the
\* clustering call, the labelling calls and the three file writes never happen.
C10_EarlyReturnWritesNothing ==
    /\ PathMissing =>
          /\ NothingDownstream
          /\ pc \in {"start", "done"}
          /\ pc = "done" => stdout = <<"Error: log_path not found">>
    /\ NoLogFiles =>
          /\ NothingDownstream
          /\ pc \in {"start", "done"}
          /\ pc = "done" => stdout = <<"No log files found">>
    /\ ZeroPrompts =>
          /\ NothingDownstream
          /\ pc = "done"
          /\ stdout[Len(stdout)] = "No user prompts found in logs"

C10_Witness ==
    /\ log_path = AssistantOnlyLog
    /\ pc = "done"
    /\ stdout = <<"Found log files", progress(script, "extracting"), "No user prompts found in logs">>
    /\ written = <<>>

-----------------------------------------------------------------------------
(* Claims about extract_user_prompts: files, records, contents, denylist *)

\* the prompts a file yields when it is the only file of the list
Alone(file) == extract_user_prompts(<<file>>).prompts

\* prompts with the path of their file replaced
Refile(prompts, log_file) ==
    [i \in 1..Len(prompts) |-> [prompts[i] EXCEPT !.meta.file = log_file]]

RECURSIVE ContributionsFrom(_, _)
\* what the readable files from position j on yield on their own, in file order
ContributionsFrom(files, j) ==
    IF j > Len(files) THEN <<>>
    ELSE (IF files[j].readable THEN Refile(Alone(files[j]), j) ELSE <<>>)
         \o ContributionsFrom(files, j + 1)

Unreadable(files) == {i \in 1..Len(files) : ~files[i].readable}

\* C11: when a log file cannot be opened or read, extract_user_prompts still returns: that
\* file yields no prompt, a message is printed for it, and every other file of the list,
\* before and after it, yields exactly the prompts it yields when it is the only file.
C11_UnreadableFileSkipped ==
    (ExtractEnded /\ Unreadable(call.args) # {}) =>
        /\ call.status = "returned"
        /\ call.ret.prompts = ContributionsFrom(call.args, 1)
        /\ Len(call.ret.printed) >= Cardinality(Unreadable(call.args))

C11_Witness ==
    /\ ExtractEnded
    /\ Len(call.args) = 3
    /\ Unreadable(call.args) = {2}
    /\ Len(call.ret.prompts) = 2
    /\ call.ret.prompts[1].meta.file = 1
    /\ call.ret.prompts[2].meta.file = 3
    /\ call.ret.printed = <<"Error processing">>

\* the lines of a file as the line loop numbers them
LoopLines(file) == stripped_lines(file.lines)

\* the line loop gets to line k of a file: no line before it ended the file's processing
Reached(file, log_file, k) ==
    \A m \in 1..(k - 1) : line_result(LoopLines(file)[m], log_file, m).out # "raise"

\* the returned prompts that come from line k of file log_file
PromptsOf(log_file, k) ==
    {i \in 1..Len(call.ret.prompts) :
        call.ret.prompts[i].meta.file = log_file /\ call.ret.prompts[i].meta.line = k}

\* the records the line loop parsed, as <<file, line number>>
ParsedRecords ==
    {<<i, k>> \in (1..Len(call.args)) \X (1..MaxLines) :
        /\ call.args[i].readable
        /\ k <= Len(LoopLines(call.args[i]))
        /\ LoopLines(call.args[i])[k].raw = "json"
        /\ Reached(call.args[i], i, k)}

AssistantLine ==
    JsonLine(JObj("type" :> JStr("assistant")
                  @@ "message" :> JObj("role" :> JStr("assistant") @@ "content" :> JStr("Sure"))))

RoleOnlyLine == JsonLine(JObj("message" :> UserMessage(JStr("add a test"))))

\* C12: a record the line loop parsed yields a prompt exactly when its type is "user" or its
\* message role is "user" and its text is non-empty and not denylisted: a record with neither
\* tag yields none, a tagged record with such a text yields exactly one.
C12_UserRecordsOnly ==
    ExtractEnded =>
        \A rec \in ParsedRecords :
            LET line == LoopLines(call.args[rec[1]])[rec[2]]
            IN  /\ ~IsUserRecord(line) => PromptsOf(rec[1], rec[2]) = {}
                /\ IsPromptRecord(line) => Cardinality(PromptsOf(rec[1], rec[2])) = 1
                /\ PromptsOf(rec[1], rec[2]) # {} => IsPromptRecord(line)

C12_Witness ==
    /\ ExtractEnded
    /\ call.args = <<ReadableFile(<<AssistantLine, RoleOnlyLine>>)>>
    /\ ParsedRecords = {<<1, 1>>, <<1, 2>>}
    /\ ReturnedTexts = <<"add a test">>

BlocksLine ==
    JsonLine(UserEntry(JList(<<TextBlock(JStr("part one")), ToolBlock, TextBlock(JStr("part two"))>>)))

\* C13: the text of a prompt is, trimmed, the content of its record when that is a string,
\* and when it is a list of blocks, the texts of the blocks that have one, in block order,
\* joined by one space; a block without a text adds nothing.
C13_BlockTextsJoined ==
    ExtractEnded =>
        \A rec \in ParsedRecords :
            LET line == LoopLines(call.args[rec[1]])[rec[2]]
                content == RecordContent(line)
            IN  \A i \in PromptsOf(rec[1], rec[2]) :
                    /\ IsStr(content) \/ IsList(content)
                    /\ IsStr(content) => call.ret.prompts[i].text = Strip(content.s)
                    /\ IsList(content) =>
                           call.ret.prompts[i].text = Strip(Join(" ", StringTexts(content.items)))

C13_Witness ==
    /\ ExtractEnded
    /\ call.args = <<ReadableFile(<<BlocksLine, JsonLine(UserEntry(JStr("Fix the bug in parser.py")))>>)>>
    /\ ReturnedTexts = <<"part one part two", "Fix the bug in parser.py">>

\* C14: no prompt text returned by extract_user_prompts starts with "System:",
\* "<system-reminder>" or "[Request interrupted", and none contains "--use-todos" or, in any
\* letter case, "ultrathink".
C14_DenylistedNeverReturned ==
    ExtractEnded =>
        \A i \in 1..Len(call.ret.prompts) :
            LET text == call.ret.prompts[i].text
            IN  /\ ~StartsWith(text, "System:")
                /\ ~StartsWith(text, "<system-reminder>")
                /\ ~StartsWith(text, "[Request interrupted")
                /\ ~Contains(text, "--use-todos")
                /\ ~Contains(Lower(text), "ultrathink")

\* C15: every prompt text returned by extract_user_prompts is non-empty and neither starts
\* nor ends with whitespace, and a user record whose text is empty once trimmed yields no
\* prompt.
C15_TextsTrimmedNonEmpty ==
    ExtractEnded =>
        /\ \A i \in 1..Len(call.ret.prompts) :
              LET text == call.ret.prompts[i].text
              IN  /\ text # ""
                  /\ ~IsSpace(Char(text, 1))
                  /\ ~IsSpace(Char(text, Len(text)))
        /\ \A rec \in ParsedRecords :
              LET line == LoopLines(call.args[rec[1]])[rec[2]]
              IN  (IsUserRecord(line) /\ Strip(RecordText(line)) = "")
                      => PromptsOf(rec[1], rec[2]) = {}

C15_Witness ==
    /\ ExtractEnded
    /\ call.args = <<ReadableFile(<<JsonLine(UserEntry(JStr("   "))),
                                    JsonLine(UserEntry(JStr("Fix the bug in parser.py")))>>)>>
    /\ ParsedRecords = {<<1, 1>>, <<1, 2>>}
    /\ ReturnedTexts = <<"Fix the bug in parser.py">>

-----------------------------------------------------------------------------
(* The report generator on larger clusterings: main from the return of the    *)
(* clustering call on, for a log of user records and a topic assignment        *)

MaxReportTopics == 6    \* non-outlier topics of the assignment

ReportTerms == {<<"parser">>}

ReportRemotes ==
    { RemoteRaises,
      RemoteAnswers(JsonContent("{\"insight\": \"x\"}", JObj("insight" :> JStr("x")))),
      RemoteAnswers(JsonContent("{\"category\": \"Repeated parser debugging\", \"workflow\": \"Beam expander design\", \"insight\": \"x\"}",
                  JObj("category" :> JStr("Repeated parser debugging")
                       @@ "workflow" :> JStr("Beam expander design") @@ "insight" :> JStr("x")))) }

\* an assignment with topics 0..n-1: one prompt each, `extra` more for topic 0, then
\* `outliers` prompts left unclustered
ReportAssignment(n, extra, outliers) ==
    [i \in 1..(n + extra + outliers) |->
        IF i <= n THEN i - 1 ELSE IF i <= n + extra THEN 0 ELSE -1]

ReportAssignments ==
    { ReportAssignment(n, extra, outliers) :
        <<n, extra, outliers>> \in
            { t \in (0..MaxReportTopics) \X (0..1) \X (0..1) :
                /\ t[1] + t[2] + t[3] >= 1
                /\ t[2] = 1 => t[1] >= 1 } }

\* a log file of n user records, all with a session id or all without
ReportLog(n, sessions) ==
    ReadableFile([i \in 1..n |->
        IF sessions THEN JsonLine(UserEntry(JStr("Fix the bug in parser.py"))) ELSE RoleOnlyLine])

\* main when analyze_prompts_with_bertopic has returned
InitReport ==
    \E topics \in ReportAssignments, sessions \in BOOLEAN :
        /\ call = NoCall
        /\ script \in Scripts
        /\ log_path = [kind |-> "file", files |-> <<ReportLog(Len(topics), sessions)>>]
        /\ key_arg \in {JNull, JStr("sk-arg")}
        /\ key_env = JNull
        /\ env = [terms |-> ReportTerms, remotes |-> ReportRemotes]
        /\ log_files = log_path.files
        /\ prompt_data = extract_user_prompts(log_path.files).prompts
        /\ cleaned_prompts = clean_prompts(Texts(prompt_data))
        /\ cluster = [status |-> "returned", topics |-> topics, rows |-> topic_info(topics)]
        /\ pc = IF loop_rows(script, topic_info(topics)) = <<>> THEN "report" ELSE "label"
        /\ labels = <<>>
        /\ written = <<>>
        /\ stdout = <<"Found log files", progress(script, "extracting"),
                      progress(script, "extracted"), progress(script, "cleaning"),
                      progress(script, "clustering"), progress(script, "generating")>>
        /\ exc = "none"

NextReport ==
    \/ LabelTopic
    \/ WriteReport
    \/ WriteSidecar
    \/ WriteCsv

SpecReport == InitReport /\ [][NextReport]_vars

-----------------------------------------------------------------------------
(* Claims about the report generators *)

\* the Markdown reports written in full
Reports == {i \in 1..Len(written) : written[i].file = "md" /\ written[i].complete}

RECURSIVE SumCounts(_)
SumCounts(sections) ==
    IF sections = <<>> THEN 0 ELSE sections[1].count + SumCounts(Tail(sections))

\* C16: in a report written by generate_report, the prompt counts of the topic sections, one
\* per non-outlier topic, and the count of prompts assigned -1 add up to the total number of
\* prompts, whatever the topic assignment.
C16_CountsAddUp ==
    \A i \in Reports :
        script = "topics" =>
            /\ Len(written[i].body.sections) = Cardinality(TopicIds(cluster.topics))
            /\ written[i].body.outliers = Count(cluster.topics, -1)
            /\ written[i].body.total = Len(cluster.topics)
            /\ SumCounts(written[i].body.sections) + written[i].body.outliers
                   = written[i].body.total

C16_Witness ==
    /\ script = "topics"
    /\ Reports # {}
    /\ cluster.topics = ReportAssignment(MaxReportTopics, 1, 1)
    /\ \E i \in Reports :
          /\ Len(written[i].body.sections) = MaxReportTopics
          /\ written[i].body.sections[1].count = 2
          /\ written[i].body.outliers = 1

\* the topics the labelling function was called for, in call order
CalledTopics ==
    LET Called(sec) == sec.called
        made == SelectSeq(labels, Called)
    IN  [i \in 1..Len(made) |-> made[i].row.Topic]

\* the topic loop has run to its end
LoopEnded == pc \in {"report", "sidecar", "csv", "done"} /\ cluster # <<>>

Min(a, b) == IF a < b THEN a ELSE b

\* C17: the labelling function is called exactly once for each of the first min(5, N)
\* non-outlier topics, in frequency order (topic 0 first), and for no other topic, whether
\* or not the assignment has outliers; a call that failed is not made again.
C17_TopFiveLabelledOnce ==
    /\ \A i, j \in 1..Len(CalledTopics) : CalledTopics[i] = CalledTopics[j] => i = j
    /\ LoopEnded =>
          CalledTopics = [i \in 1..Min(5, Cardinality(TopicIds(cluster.topics))) |-> i - 1]

\* the iterations of the topic loop that made a labelling call, in call order
Calls ==
    LET Called(sec) == sec.called
    IN  SelectSeq(labels, Called)

\* the label a labelling call returned
ReturnedLabel(sec) ==
    IF script = "topics" THEN sec.analysis
    ELSE sec.analysis.f[IF script = "founder" THEN "workflow" ELSE "category"]

\* C18: the k-th labelling call of a run gets as existing categories the labels returned by
\* the calls 1..k-1, in call order; the first call gets the empty list.
C18_ExistingLabelsPassed ==
    \A k \in 1..Len(Calls) :
        Calls[k].args.existing_categories = [j \in 1..(k - 1) |-> ReturnedLabel(Calls[j])]

C18_Witness ==
    /\ script = "topics"
    /\ Len(Calls) = 3
    /\ Calls[1].args.existing_categories = <<>>
    /\ Calls[3].args.existing_categories = <<JStr("Parser Tasks"), JStr("Repeated parser debugging")>>

\* positions of the sidecar files among the files written
Sidecars == {i \in 1..Len(written) : written[i].file = "json"}

\* C19: the JSON sidecar is written only after the Markdown report and holds exactly one
\* entry per classified topic; a run that ends normally has written it if and only if at
\* least one topic was classified.
C19_SidecarIffClassified ==
    /\ \A i \in Sidecars :
          /\ \E j \in Reports : j < i
          /\ Calls # <<>>
          /\ [k \in 1..Len(written[i].body) |-> written[i].body[k].topic_id] = CalledTopics
    /\ pc = "done" => (Sidecars # {} <=> Calls # <<>>)

C19_Witness ==
    /\ pc = "done"
    /\ script = "usage"
    /\ Cardinality(TopicIds(cluster.topics)) = MaxReportTopics
    /\ Sidecars = {2}
    /\ Reports = {1}
    /\ Len(written[2].body) = TopLabelled

-----------------------------------------------------------------------------
(* Claims about main: failures *)

ClusteringFailed == cluster # <<>> /\ cluster.status = "raised"

\* C20: when the clustering call raises, the exception leaves main: no labelling call is made
\* and no report, sidecar or CSV file is written in that run.
C20_ClusteringFailureAborts ==
    ClusteringFailed =>
        /\ pc = "aborted"
        /\ exc # "none"
        /\ labels = <<>>
        /\ written = <<>>

C20_Witness ==
    /\ ClusteringFailed
    /\ pc = "aborted"
    /\ exc = "ValueError"
    /\ Len(cleaned_prompts) = 2
    /\ written = <<>>
    /\ stdout[Len(stdout)] = progress(script, "clustering")

-----------------------------------------------------------------------------
(* Claims about the output files *)

\* the stages of a report generator that open an output file
WriteStages == {"report", "sidecar", "csv"}

\* the file each of these stages writes
StageFile(stage) ==
    IF stage = "report" THEN "md" ELSE IF stage = "sidecar" THEN "json" ELSE "csv"

\* the names of the files opened for writing so far, in order
FilesWritten == [i \in 1..Len(written) |-> written[i].file]

\* a step that wrote the file of the current stage in full
WroteFile ==
    /\ Len(written') = Len(written) + 1
    /\ SubSeq(written', 1, Len(written)) = written
    /\ written'[Len(written')].file = StageFile(pc)
    /\ written'[Len(written')].complete
    /\ exc' = exc

\* a step in which the write of the current stage failed and the exception left main: the
\* files written before are as they were, and the Markdown file at most opened and left empty
WriteAborted ==
    /\ pc' = "aborted"
    /\ exc' # "none"
    /\ \/ written' = written
       \/ pc = "report" /\ written' = Append(written, [file |-> "md", complete |-> FALSE])

\* C21: a failure while writing an output file is not recovered: it leaves main, and no later
\* output file is written. A sidecar or CSV file is only ever written after the Markdown
\* report, and a failed sidecar write leaves the report written before it in place.
C21_WriteFailureAborts ==
    /\ [](FilesWritten \in {<<>>, <<"md">>, <<"md", "json">>, <<"md", "csv">>,
                            <<"md", "json", "csv">>})
    /\ [][ /\ pc \in WriteStages => (WroteFile \/ WriteAborted)
           /\ pc = "aborted" => written' = written ]_vars

C21_Witness ==
    /\ pc = "aborted"
    /\ exc = "OSError"
    /\ Calls # <<>>
    /\ Reports = {1}
    /\ FilesWritten = <<"md">>

-----------------------------------------------------------------------------
(* Claims about extract_user_prompts: lines, order, metadata *)

\* the texts of a set of returned prompts
TextsOf(positions) == {call.ret.prompts[i].text : i \in positions}

\* the texts a line yields when it is the only line of the only file
OwnTexts(line) ==
    LET alone == Alone(ReadableFile(<<line>>))
    IN  {alone[i].text : i \in 1..Len(alone)}

\* C22: each line of a log file is processed independently: the prompt a line yields, if any,
\* is the one it yields as the only line of a file, whatever the other lines of its file hold.
C22_LinesIndependent ==
    ExtractEnded =>
        \A i \in 1..Len(call.args) :
            call.args[i].readable =>
                \A k \in 1..Len(LoopLines(call.args[i])) :
                    TextsOf(PromptsOf(i, k)) = OwnTexts(LoopLines(call.args[i])[k])

\* C27: for every returned prompt, metadata 'file' is the file it came from and metadata
\* 'line' is the 1-based number, within that file as it is on disk, of the line holding its
\* record, whatever blank or unparseable lines the file has.
C27_MetadataLocatesRecord ==
    ExtractEnded =>
        \A i \in 1..Len(call.ret.prompts) :
            LET p == call.ret.prompts[i]
            IN  /\ p.meta.file \in 1..Len(call.args)
                /\ call.args[p.meta.file].readable
                /\ p.meta.line \in 1..Len(call.args[p.meta.file].lines)
                /\ p.text \in OwnTexts(call.args[p.meta.file].lines[p.meta.line])

-----------------------------------------------------------------------------
(* Claims about main: the order of the stages *)

\* the position of a stage in main; a run ends at "done" or "aborted"
StageRank(stage) ==
    CASE stage = "start"   -> 0
      [] stage = "extract" -> 1
      [] stage = "clean"   -> 2
      [] stage = "cluster" -> 3
      [] stage = "label"   -> 4
      [] stage = "report"  -> 5
      [] stage = "sidecar" -> 6
      [] stage = "csv"     -> 7
      [] OTHER             -> 8

\* the topic loop made all its iterations and none of its calls raised
LabellingComplete ==
    /\ cluster # <<>>
    /\ cluster.status = "returned"
    /\ Len(labels) = Len(loop_rows(script, cluster.rows))
    /\ \A i \in 1..Len(labels) : labels[i].status # "raised"

\* C23: every run goes through the stages in one fixed order and re-enters none: the log files
\* are read before the clustering call, the clustering call returns before the first labelling
\* call, and every labelling call has returned before the first output file is opened. Each
\* stage's result is set in that stage only.
C23_StagesInOrder ==
    /\ [](/\ cluster # <<>> => (log_files # <<>> /\ prompt_data # <<>>
                                /\ Len(cleaned_prompts) = Len(prompt_data))
          /\ labels # <<>> => (cluster # <<>> /\ cluster.status = "returned")
          /\ written # <<>> => LabellingComplete)
    /\ [][ /\ \/ StageRank(pc') > StageRank(pc)
              \/ pc = "label" /\ pc' = "label" /\ Len(labels') = Len(labels) + 1
           /\ log_files' # log_files => pc = "start"
           /\ prompt_data' # prompt_data => pc = "extract"
           /\ cleaned_prompts' # cleaned_prompts => pc = "clean"
           /\ cluster' # cluster => pc = "cluster"
           /\ labels' # labels => pc = "label"
           /\ written' # written => pc \in WriteStages ]_vars

C23_Witness ==
    /\ pc = "done"
    /\ script = "topics"
    /\ Len(log_files) = 2
    /\ Len(labels) = 2
    /\ Len(Calls) = 2
    /\ FilesWritten = <<"md", "json", "csv">>

-----------------------------------------------------------------------------
(* Claims about the report generators: termination *)

\* the report generator under the interpreter's scheduling: straight-line code in one thread,
\* so a statement that can run does run
FairSpecReport == InitReport /\ [][NextReport]_vars /\ WF_vars(NextReport)

\* a write of an output file failed: the file could not be opened, or was left incomplete
WriteFailed == exc = "OSError" \/ \E i \in 1..Len(written) : ~written[i].complete

\* C24: once prompts were extracted and the clustering call returned, the Markdown report is
\* eventually written unless a file write fails, whatever session ids and timestamps the
\* records have and whatever the labelling calls answer.
C24_ReportEventuallyWritten == <>(Reports # {} \/ WriteFailed)

-----------------------------------------------------------------------------
(* Claims about the report generators: section numbers *)

\* the numbers of the per-topic sections of a report, in order of appearance
SectionNumbers(i) ==
    [k \in 1..Len(written[i].body.sections) |-> written[i].body.sections[k].number]

\* C25: the per-topic sections of a report ("Topic n", "Pattern n", "Workflow n") are numbered
\* 1, 2, ..., k in order of appearance, whether or not the clustering has an outlier topic.
C25_SectionsNumberedFromOne ==
    \A i \in Reports :
        SectionNumbers(i) = [k \in 1..Len(written[i].body.sections) |-> k]

-----------------------------------------------------------------------------
(* Claims about main: the lists handed to the report generator *)

\* the clustering call returned: main has the three lists the report generator is given
ListsReady == cluster # <<>> /\ cluster.status = "returned"

\* prompt i comes from an earlier place of the logs than prompt j
Before(i, j) ==
    \/ prompt_data[i].meta.file < prompt_data[j].meta.file
    \/ /\ prompt_data[i].meta.file = prompt_data[j].meta.file
       /\ prompt_data[i].meta.line < prompt_data[j].meta.line

\* C26: the prompts, the metadata and the topic assignment the report generator is given have
\* the same length and are aligned: the i-th normalised prompt is the normalisation of the
\* i-th extracted prompt, whose metadata is the i-th of the metadata list; the extracted
\* prompts are in file order and, within a file, in line order.
C26_ListsAligned ==
    ListsReady =>
        /\ Len(cleaned_prompts) = Len(prompt_data)
        /\ Len(Metadata(prompt_data)) = Len(prompt_data)
        /\ Len(cluster.topics) = Len(prompt_data)
        /\ \A i \in 1..Len(prompt_data) :
              /\ cleaned_prompts[i] = clean_prompt(prompt_data[i].text)
              /\ Metadata(prompt_data)[i] = prompt_data[i].meta
        /\ \A i, j \in 1..Len(prompt_data) : i < j => Before(i, j)

C26_Witness ==
    /\ ListsReady
    /\ pc = "done"
    /\ Len(log_files) = 1
    /\ Len(prompt_data) = 2
    /\ prompt_data[1].meta.line = 1
    /\ prompt_data[2].meta.line = 2
    /\ cleaned_prompts = <<"add a test", "Fix the bug in parser.py">>
    /\ cluster.topics = <<0, -1>>

-----------------------------------------------------------------------------
(* Claims about clean_prompts: the shape of the output *)

\* C28: clean_prompts returns one text per input, in input order; each is at most 503
\* characters long, has no whitespace at either end, and holds no whitespace but single spaces
\* between runs of other characters.
C28_CleanOutputShape ==
    CleanEnded =>
        /\ Len(call.ret) = Len(call.args)
        /\ \A i \in 1..Len(call.ret) :
              /\ Len(call.ret[i]) <= TruncateAt + Len(Ellipsis)
              /\ SingleSpaced(call.ret[i])
              /\ \/ call.ret[i] = Join(" ", Split(call.args[i]))
                 \/ call.ret[i] = Prefix(Join(" ", Split(call.args[i])), TruncateAt) \o Ellipsis

C28_Witness ==
    /\ CleanEnded
    /\ call.status = "returned"
    /\ Len(call.args) = 2
    /\ call.args[1] = "  Fix \t the\n\nbug  "
    /\ call.ret[1] = "Fix the bug"
    /\ Len(call.args[2]) > TruncateAt + Len(Ellipsis)
    /\ call.args[2] # Join(" ", Split(call.args[2]))
    /\ Len(call.ret[2]) = TruncateAt + Len(Ellipsis)

====
